---- MODULE Spec2Model ----
(***************************************************************************)
(* CEN64: the VR4300 data cache (vr4300/dcache.c) and the host entry point *)
(* (cen64.c: cen64_main, load_roms, run_device), as state machines.        *)
(***************************************************************************)
EXTENDS Integers, Sequences, FiniteSets, TLC

(***************************************************************************)
(* Bounds of the model: how many sample inputs the operations draw from.   *)
(***************************************************************************)
NumVAddr == 3
NumPAddr == 2
NumTag == 1
NumBlock == 1

\* Virtual addresses: 0x0 is index 0 and 0x10 is index 1; 0x2000 shares
\* index 0 and 0x2010 shares index 1; 0x1FF0 is index 511.
VAddrSeq == <<0, 16, 8192, 8208, 8176>>
VAddrs == {VAddrSeq[i] : i \in 1..NumVAddr}

\* Physical addresses: 0x10 (tag 1), 0x1000010 (at or above 2^24: its
\* paddr >> 4 is 0x100001, which needs 21 bits), 0x20, 0x7FFFFF0, 0x1000000.
PAddrSeq == <<16, 16777232, 32, 134217712, 16777216>>
PAddrs == {PAddrSeq[i] : i \in 1..NumPAddr}

\* Tags handed to vr4300_dcache_set_tag.
TagSeq == <<2, 1048578, 1, 1048575>>
Tags == {TagSeq[i] : i \in 1..NumTag}

\* 16-byte blocks of data.  A block is held by its number k, which stands
\* for the 16 bytes BlockBytes(k); different numbers are different bytes.
BlockBytes(k) == [i \in 1..16 |-> (k * 17 + i) % 256]
Block(k) == k
Blocks == {Block(k) : k \in 1..NumBlock}

(***************************************************************************)
(* uint32_t words.  A word w is held as [hi, lo] with w = hi * 2^12 + lo,  *)
(* hi in 0..2^20-1 and lo in 0..2^12-1, so that all 32 bits are kept.      *)
(***************************************************************************)
Word(h, l) == [hi |-> h % (2^20), lo |-> l % (2^12)]

\* (uint32_t) (tag << 12): the bits of tag at and above bit 20 are lost.
Shl12(tag) == Word(tag, 0)

\* w >> 12
Shr12(w) == w.hi

\* bit b (0 or 1) of the low part of w
Bit(w, b) == (w.lo \div (2^b)) % 2

\* w & ~(1 << b), for b in 0..1
ClearBit(w, b) == [w EXCEPT !.lo = w.lo - Bit(w, b) * (2^b)]

\* w | (1 << b), for b in 0..1
SetBit(w, b) == [w EXCEPT !.lo = w.lo + (1 - Bit(w, b)) * (2^b)]

\* The null pointer: no line (indices are 0..511).
NULL == -1

\* The index of the line for a given virtual address.
get_line(vaddr) == (vaddr \div 16) % 512

\* The physical tag associated with the line.
get_tag(line) == Shr12(line.metadata)

\* An invalidate that clears the dirty bit (0x2) in place of the valid bit.
invalidate_line_wrong_bit(line) ==
  [line EXCEPT !.metadata = ClearBit(line.metadata, 1)]

\* Invalidates the line, but leaves the physical tag untouched.
invalidate_line(line) == [line EXCEPT !.metadata = ClearBit(line.metadata, 0)]

is_dirty(line) == Bit(line.metadata, 1) = 1

is_valid(line) == Bit(line.metadata, 0) = 1

set_clean(line) == [line EXCEPT !.metadata = ClearBit(line.metadata, 1)]

set_dirty(line) == [line EXCEPT !.metadata = SetBit(line.metadata, 1)]

\* line->metadata = (tag << 12) | (line->metadata & 0x1)
set_tag(line, tag) ==
  [line EXCEPT !.metadata = [hi |-> Shl12(tag).hi, lo |-> Bit(line.metadata, 0)]]

\* A validate that sets the valid bit and keeps the tag the line had.
validate_line_keeps_tag(line, tag) ==
  [line EXCEPT !.metadata = [hi |-> line.metadata.hi, lo |-> 1]]

\* line->metadata = (tag << 12) | 0x1
validate_line(line, tag) ==
  [line EXCEPT !.metadata = [hi |-> Shl12(tag).hi, lo |-> 1]]

VARIABLES
  lines,      \* dcache->lines: index -> [data, metadata]
  lastOp,     \* the last D-cache operation: its name, its return value, whether
              \* it hit, whether its line was valid and dirty when it was called
  fillTag,    \* index -> paddr >> 4 of the fill that installed the line's data
  wbInv,      \* indices written-back-invalidated and not filled since
  memWrites,  \* the writes to memory the D-cache operations have made
  pc,         \* cen64_main: the place of the invoker's thread
  options,    \* cen64_main: struct cen64_options, once parsed
  status,     \* cen64_main: int status
  ret,        \* what cen64_main returned
  failure,    \* the host-level failure that happened, or "none"
  roms,       \* rom file -> times opened, times closed, and what
              \* validate_sha said of it ("unchecked" when it was not called)
  log_fp,     \* the log file: "null", "open", "closed", or "fclose_null"
  saves,      \* save files opened, those open_save_file created, and those
              \* whose contents start-up wrote (memset, controller_pak_format)
  device,     \* the device: allocated, created, destroy calls, running
  thread,     \* the emulation thread: its place, device_run calls, cycles run
  rd,         \* what run_device returned (<<>> before it has)
  rsp_opcode  \* the decoded record of the instruction the RSP is decoding

dvars == <<lines, lastOp, fillTag, wbInv, memWrites>>

mvars == <<pc, options, status, ret, failure, roms, log_fp, saves, device,
           thread, rd>>

rvars == <<rsp_opcode>>

vars == <<lines, lastOp, fillTag, wbInv, memWrites, pc, options, status, ret,
          failure, roms, log_fp, saves, device, thread, rd, rsp_opcode>>

Indices == {get_line(v) : v \in VAddrs}

\* vr4300_dcache_init initialises nothing: the lines hold whatever the memory
\* of the device held.  Each line the sample addresses reach starts zeroed
\* (invalid), or valid and dirty with tag 1, or with every low bit set;
\* the other lines start zeroed.
InitMetas == {[hi |-> 0, lo |-> 0], [hi |-> 1, lo |-> 3], [hi |-> 1, lo |-> 4095]}
InitLines == [Indices -> [data : {Block(0)}, metadata : InitMetas]]

Op(o, r, h, d) == [op |-> o, ret |-> r, hit |-> h, dirty |-> d]

vr4300_dcache_init ==
  /\ \E f \in InitLines :
       lines = [i \in 0..511 |->
                  IF i \in Indices THEN f[i]
                  ELSE [data |-> Block(0), metadata |-> Word(0, 0)]]
  /\ lastOp = Op("init", NULL, FALSE, FALSE)
  /\ fillTag = <<>>
  /\ wbInv = {}
  /\ memWrites = {}

\* Fills a cache line with data.
vr4300_dcache_fill(vaddr, paddr, data) ==
  LET i == get_line(vaddr)
      l1 == [lines[i] EXCEPT !.data = data]
      l2 == validate_line(l1, paddr \div 16)
      l3 == set_clean(l2)
  IN /\ lines' = [lines EXCEPT ![i] = l3]
     /\ lastOp' = Op("fill", NULL, FALSE, is_valid(lines[i]) /\ is_dirty(lines[i]))
     /\ fillTag' = (i :> (paddr \div 16)) @@ fillTag
     /\ wbInv' = wbInv \ {i}
     /\ UNCHANGED memWrites

\* Invalidates a cache line (regardless if hit or miss).
vr4300_dcache_invalidate(vaddr) ==
  LET i == get_line(vaddr)
  IN /\ lines' = [lines EXCEPT ![i] = invalidate_line(lines[i])]
     /\ lastOp' = Op("invalidate", NULL, FALSE, FALSE)
     /\ UNCHANGED <<fillTag, wbInv, memWrites>>

\* Invalidates a cache line (only on a hit).
vr4300_dcache_invalidate_hit(vaddr, paddr) ==
  LET i == get_line(vaddr)
      ptag == get_tag(lines[i])
      hit == ptag = paddr \div 16 /\ is_valid(lines[i])
  IN /\ lines' = IF hit
                 THEN [lines EXCEPT ![i] = invalidate_line(lines[i])]
                 ELSE lines
     /\ lastOp' = Op("invalidate_hit", NULL, hit, FALSE)
     /\ UNCHANGED <<fillTag, wbInv, memWrites>>

\* A probe that compares the tags and does not look at the valid bit.
probe_ignores_valid(ls, vaddr, paddr) ==
  LET i == get_line(vaddr)
      ptag == get_tag(ls[i])
  IN IF ptag = paddr \div 16 THEN i ELSE NULL

\* Probes the cache for a matching line: the index of the line, or NULL.
probe(ls, vaddr, paddr) ==
  LET i == get_line(vaddr)
      ptag == get_tag(ls[i])
  IN IF ptag = paddr \div 16 /\ is_valid(ls[i]) THEN i ELSE NULL

vr4300_dcache_probe(vaddr, paddr) ==
  LET r == probe(lines, vaddr, paddr)
  IN /\ lastOp' = Op("probe", r, r # NULL, FALSE)
     /\ UNCHANGED <<lines, fillTag, wbInv, memWrites>>

\* Sets the physical tag associated with the line.
vr4300_dcache_set_tag(vaddr, tag) ==
  LET i == get_line(vaddr)
  IN /\ lines' = [lines EXCEPT ![i] = set_tag(lines[i], tag)]
     /\ lastOp' = Op("set_tag", NULL, FALSE, FALSE)
     /\ UNCHANGED <<fillTag, wbInv, memWrites>>

\* A should_flush_line that looks at the dirty bit alone.
should_flush_line_dirty_only(ls, vaddr) ==
  LET i == get_line(vaddr)
  IN IF is_dirty(ls[i]) THEN i ELSE NULL

\* A should_flush_line with || in place of &&.
should_flush_line_either(ls, vaddr) ==
  LET i == get_line(vaddr)
  IN IF is_dirty(ls[i]) \/ is_valid(ls[i]) THEN i ELSE NULL

\* The index of the line if it's dirty and valid, or NULL.
should_flush_line(ls, vaddr) ==
  LET i == get_line(vaddr)
  IN IF is_dirty(ls[i]) /\ is_valid(ls[i]) THEN i ELSE NULL

vr4300_dcache_should_flush_line(vaddr) ==
  LET r == should_flush_line(lines, vaddr)
  IN /\ lastOp' = Op("should_flush_line", r, r # NULL, r # NULL)
     /\ UNCHANGED <<lines, fillTag, wbInv, memWrites>>

\* Invalidates the line if it is valid.  Nothing is written back (TODO).
vr4300_dcache_wb_invalidate(vaddr) ==
  LET i == get_line(vaddr)
  IN /\ lines' = IF is_valid(lines[i])
                 THEN [lines EXCEPT ![i] = invalidate_line(lines[i])]
                 ELSE lines
     /\ lastOp' = Op("wb_invalidate", NULL, FALSE,
                     is_valid(lines[i]) /\ is_dirty(lines[i]))
     /\ wbInv' = wbInv \cup {i}
     /\ UNCHANGED <<fillTag, memWrites>>

(***************************************************************************)
(* cen64.c: cen64_main, load_roms, load_paks, run_device and the emulation *)
(* thread.                                                                 *)
(***************************************************************************)
MaxCycles == 2

EXIT_SUCCESS == 0
EXIT_FAILURE == 1

RomFiles == {"ddipl", "ddrom", "pifrom", "cart"}

\* struct cen64_options as parse_options leaves it: which paths were given,
\* the pak of the controller ("mem": a memory pak with a path, "transfer": a
\* transfer pak with a ROM and a save path, "none": neither), and no_video.
OptionSets ==
  [ddipl : BOOLEAN, ddrom : BOOLEAN, cart : BOOLEAN, log : BOOLEAN,
   pak : {"none", "mem", "transfer"}, eeprom : BOOLEAN, sram : BOOLEAN,
   flashram : BOOLEAN, no_video : BOOLEAN]

NoOptions ==
  [ddipl |-> FALSE, ddrom |-> FALSE, cart |-> FALSE, log |-> FALSE,
   pak |-> "none", eeprom |-> FALSE, sram |-> FALSE, flashram |-> FALSE,
   no_video |-> FALSE]

\* The save files the options ask for.
Requested(o) ==
  {f \in {"eeprom", "sram", "flashram"} : o[f]}
    \cup (IF o.pak = "mem" THEN {"mempak"} ELSE {})
    \cup (IF o.pak = "transfer" THEN {"tpak_rom", "tpak_save"} ELSE {})

NoRoms == [f \in RomFiles |-> [opens |-> 0, closes |-> 0, sha |-> "unchecked"]]
NoSaves == [opened |-> {}, created |-> {}, initialised |-> {}]
NoDevice == [allocated |-> FALSE, created |-> FALSE, destroys |-> 0,
             running |-> FALSE]
NoThread == [pc |-> "none", runs |-> 0, cycles |-> 0]

\* The state when cen64_main is entered.  status is an uninitialised int.
MainInit ==
  /\ pc = "cart_db"
  /\ options = NoOptions
  /\ status \in {EXIT_SUCCESS, EXIT_FAILURE}
  /\ ret = <<>>
  /\ failure = "none"
  /\ roms = NoRoms
  /\ log_fp = "null"
  /\ saves = NoSaves
  /\ device = NoDevice
  /\ thread = NoThread
  /\ rd = <<>>

\* return value; from cen64_main
Return(value) ==
  /\ pc' = "returned"
  /\ ret' = <<value>>

Open(rs, f) == [rs EXCEPT ![f].opens = @ + 1]
Close(rs, f) == [rs EXCEPT ![f].closes = @ + 1]

\* An "if (path) close_rom_file(file)" that closes nothing.
CloseIfForgotten(cond, rs, f) == rs

CloseIf(cond, rs, f) == IF cond THEN Close(rs, f) ELSE rs

\* validate_sha(rom, good_sum): whether the SHA-1 of the file is the good sum
\* (for the PIF ROM: one of the three known sums).
validate_sha(rs, f, ok) == [rs EXCEPT ![f].sha = IF ok THEN "match" ELSE "mismatch"]

\* if (!cart_db_is_well_formed()) return EXIT_FAILURE;
CartDbCheck ==
  /\ pc = "cart_db"
  /\ \E ok \in BOOLEAN :
       IF ok
       THEN pc' = "alloc_init" /\ UNCHANGED <<ret, failure>>
       ELSE Return(EXIT_FAILURE) /\ failure' = "cart_db"
  /\ UNCHANGED <<options, status, roms, log_fp, saves, device, thread, rd>>

\* if (cen64_alloc_init()) return EXIT_FAILURE;
AllocInit ==
  /\ pc = "alloc_init"
  /\ \E ok \in BOOLEAN :
       IF ok
       THEN pc' = "argc" /\ UNCHANGED <<ret, failure>>
       ELSE Return(EXIT_FAILURE) /\ failure' = "alloc_init"
  /\ UNCHANGED <<options, status, roms, log_fp, saves, device, thread, rd>>

\* if (argc < 3) { usage; cen64_alloc_cleanup(); return EXIT_SUCCESS; }
ArgcCheck ==
  /\ pc = "argc"
  /\ \E enough \in BOOLEAN :
       IF enough
       THEN pc' = "parse_options" /\ UNCHANGED ret
       ELSE Return(EXIT_SUCCESS)
  /\ UNCHANGED <<options, status, failure, roms, log_fp, saves, device,
                 thread, rd>>

\* if (parse_options(&options, ...)) { ...; return EXIT_FAILURE; }
ParseOptions ==
  /\ pc = "parse_options"
  /\ \/ /\ Return(EXIT_FAILURE)
        /\ failure' = "options"
        /\ UNCHANGED options
     \/ /\ \E o \in OptionSets : options' = o
        /\ pc' = "load_roms"
        /\ UNCHANGED <<ret, failure>>
  /\ UNCHANGED <<status, roms, log_fp, saves, device, thread, rd>>

\* load_roms with the code under "#if 0" compiled in: a SHA-1 mismatch closes
\* the files opened so far and returns 6 (DD IPL) or 5 (PIF ROM).
load_roms_strict(o, rs, fail, ipl_sha_ok, pif_sha_ok) ==
  LET r1 == IF o.ddipl /\ fail # "ddipl"
            THEN validate_sha(Open(rs, "ddipl"), "ddipl", ipl_sha_ok)
            ELSE rs
      r2 == IF o.ddrom /\ fail # "ddrom" THEN Open(r1, "ddrom") ELSE r1
      r3 == IF fail # "pifrom"
            THEN validate_sha(Open(r2, "pifrom"), "pifrom", pif_sha_ok)
            ELSE r2
      r4 == IF o.cart /\ fail # "cart" THEN Open(r3, "cart") ELSE r3
  IN IF o.ddipl /\ fail = "ddipl"
     THEN [value |-> 1, roms |-> rs]
     ELSE IF o.ddipl /\ ~ipl_sha_ok
     THEN [value |-> 6, roms |-> Close(r1, "ddipl")]
     ELSE IF o.ddrom /\ fail = "ddrom"
     THEN [value |-> 2, roms |-> CloseIf(o.ddipl, r1, "ddipl")]
     ELSE IF fail = "pifrom"
     THEN [value |-> 3,
           roms |-> CloseIf(o.ddrom, CloseIf(o.ddipl, r2, "ddipl"), "ddrom")]
     ELSE IF ~pif_sha_ok
     THEN [value |-> 5,
           roms |-> CloseIf(o.ddrom, CloseIf(o.ddipl, r3, "ddipl"), "ddrom")]
     ELSE IF o.cart /\ fail = "cart"
     THEN [value |-> 4,
           roms |-> Close(CloseIf(o.ddrom, CloseIf(o.ddipl, r3, "ddipl"),
                                  "ddrom"), "pifrom")]
     ELSE [value |-> 0, roms |-> r4]

\* load_roms: fail is the rom file whose open_rom_file fails ("none": none
\* does); the SHA-1 of the DD IPL and of the PIF ROM match or not.  A
\* mismatch is printed and nothing else (the returns are under "#if 0").
\* The result: the value returned and the rom files as opened and closed.
load_roms(o, rs, fail, ipl_sha_ok, pif_sha_ok) ==
  LET r1 == IF o.ddipl /\ fail # "ddipl"
            THEN validate_sha(Open(rs, "ddipl"), "ddipl", ipl_sha_ok)
            ELSE rs
      r2 == IF o.ddrom /\ fail # "ddrom" THEN Open(r1, "ddrom") ELSE r1
      r3 == IF fail # "pifrom"
            THEN validate_sha(Open(r2, "pifrom"), "pifrom", pif_sha_ok)
            ELSE r2
      r4 == IF o.cart /\ fail # "cart" THEN Open(r3, "cart") ELSE r3
  IN IF o.ddipl /\ fail = "ddipl"
     THEN [value |-> 1, roms |-> rs]
     ELSE IF o.ddrom /\ fail = "ddrom"
     THEN [value |-> 2, roms |-> CloseIf(o.ddipl, r1, "ddipl")]
     ELSE IF fail = "pifrom"
     THEN [value |-> 3,
           roms |-> CloseIf(o.ddrom, CloseIf(o.ddipl, r2, "ddipl"), "ddrom")]
     ELSE IF o.cart /\ fail = "cart"
     THEN [value |-> 4,
           roms |-> Close(CloseIf(o.ddrom, CloseIf(o.ddipl, r3, "ddipl"),
                                  "ddrom"), "pifrom")]
     ELSE [value |-> 0, roms |-> r4]

\* The failure a nonzero return of load_roms stands for: which open failed.
RomFailure(value) ==
  CASE value = 1 -> "ddipl"
    [] value = 2 -> "ddrom"
    [] value = 3 -> "pifrom"
    [] value = 4 -> "cart"
    [] OTHER -> "roms"

\* if (load_roms(...)) { cen64_alloc_cleanup(); return EXIT_FAILURE; }
LoadRoms ==
  /\ pc = "load_roms"
  /\ \E fail \in RomFiles \cup {"none"}, ipl_sha_ok, pif_sha_ok \in BOOLEAN :
       LET r == load_roms(options, roms, fail, ipl_sha_ok, pif_sha_ok)
       IN /\ roms' = r.roms
          /\ IF r.value # 0
             THEN Return(EXIT_FAILURE) /\ failure' = RomFailure(r.value)
             ELSE pc' = "open_log" /\ UNCHANGED <<ret, failure>>
  /\ UNCHANGED <<options, status, log_fp, saves, device, thread, rd>>

\* open_log_file: log_fp = fopen(path, "w"); 1 if it is null, else 0.
\* if (options.log_path != NULL && open_log_file(...)) return EXIT_FAILURE;
OpenLog ==
  /\ pc = "open_log"
  /\ IF options.log
     THEN \E ok \in BOOLEAN :
            IF ok
            THEN log_fp' = "open" /\ pc' = "load_paks"
                 /\ UNCHANGED <<ret, failure>>
            ELSE log_fp' = "null" /\ Return(EXIT_FAILURE) /\ failure' = "log"
     ELSE pc' = "load_paks" /\ UNCHANGED <<log_fp, ret, failure>>
  /\ UNCHANGED <<options, status, roms, saves, device, thread, rd>>

\* An open of a save file that initialises the file whether or not it was
\* created.
OpenSaveAlwaysInitialises(f, requested, init_if_created, next) ==
  IF requested
  THEN \E ok, created \in BOOLEAN :
         IF ok
         THEN /\ saves' = [opened |-> saves.opened \cup {f},
                           created |-> IF created
                                       THEN saves.created \cup {f}
                                       ELSE saves.created,
                           initialised |->
                             IF init_if_created
                             THEN saves.initialised \cup {f}
                             ELSE saves.initialised]
              /\ pc' = next
              /\ UNCHANGED <<ret, failure>>
         ELSE /\ Return(EXIT_FAILURE)
              /\ failure' = f
              /\ UNCHANGED saves
  ELSE pc' = next /\ UNCHANGED <<saves, ret, failure>>

\* open_save_file(path, size, &save, &created) for save file f, with what to
\* do when the file was created (initialise it or not).
OpenSave(f, requested, init_if_created, next) ==
  IF requested
  THEN \E ok, created \in BOOLEAN :
         IF ok
         THEN /\ saves' = [opened |-> saves.opened \cup {f},
                           created |-> IF created
                                       THEN saves.created \cup {f}
                                       ELSE saves.created,
                           initialised |->
                             IF created /\ init_if_created
                             THEN saves.initialised \cup {f}
                             ELSE saves.initialised]
              /\ pc' = next
              /\ UNCHANGED <<ret, failure>>
         ELSE /\ Return(EXIT_FAILURE)
              /\ failure' = f
              /\ UNCHANGED saves
  ELSE pc' = next /\ UNCHANGED <<saves, ret, failure>>

\* load_paks of a transfer pak: open_rom_file of its ROM, then open_gb_save
\* of its save; -1 when either fails.
LoadTransferPak ==
  \E rom_ok, save_ok \in BOOLEAN :
    IF rom_ok /\ save_ok
    THEN /\ saves' = [saves EXCEPT !.opened = @ \cup {"tpak_rom", "tpak_save"}]
         /\ pc' = "eeprom"
         /\ UNCHANGED <<ret, failure>>
    ELSE /\ saves' = [saves EXCEPT !.opened =
                        @ \cup (IF rom_ok THEN {"tpak_rom"} ELSE {})]
         /\ Return(EXIT_FAILURE)
         /\ failure' = "tpak"

\* if (load_paks(controller)) { cen64_alloc_cleanup(); return EXIT_FAILURE; }
\* A memory pak: its file is opened, and formatted if it was created.
LoadPaks ==
  /\ pc = "load_paks"
  /\ IF options.pak = "transfer"
     THEN LoadTransferPak
     ELSE OpenSave("mempak", options.pak = "mem", TRUE, "eeprom")
  /\ UNCHANGED <<options, status, roms, log_fp, device, thread, rd>>

OpenEeprom ==
  /\ pc = "eeprom"
  /\ OpenSave("eeprom", options.eeprom, FALSE, "sram")
  /\ UNCHANGED <<options, status, roms, log_fp, device, thread, rd>>

OpenSram ==
  /\ pc = "sram"
  /\ OpenSave("sram", options.sram, FALSE, "flashram")
  /\ UNCHANGED <<options, status, roms, log_fp, device, thread, rd>>

\* FlashRAM: if (created) memset(flashram.ptr, 0xFF, FLASHRAM_SIZE);
OpenFlashram ==
  /\ pc = "flashram"
  /\ OpenSave("flashram", options.flashram, TRUE, "alloc_device")
  /\ UNCHANGED <<options, status, roms, log_fp, device, thread, rd>>

\* if (cen64_alloc(&cen64_device_mem, ...) == NULL) status = EXIT_FAILURE;
AllocDevice ==
  /\ pc = "alloc_device"
  /\ \E ok \in BOOLEAN :
       IF ok
       THEN /\ device' = [device EXCEPT !.allocated = TRUE]
            /\ pc' = "device_create"
            /\ UNCHANGED <<status, failure>>
       ELSE /\ status' = EXIT_FAILURE
            /\ failure' = "alloc_device"
            /\ pc' = "release"
            /\ UNCHANGED device
  /\ UNCHANGED <<options, ret, roms, log_fp, saves, thread, rd>>

\* A device_create failure that leaves status as it was.
DeviceCreateFailsStatusKept ==
  /\ failure' = "device_create"
  /\ pc' = "free"
  /\ UNCHANGED <<device, status>>

\* if (device_create(...) == NULL) status = EXIT_FAILURE;
DeviceCreateFails ==
  /\ status' = EXIT_FAILURE
  /\ failure' = "device_create"
  /\ pc' = "free"
  /\ UNCHANGED device

DeviceCreate ==
  /\ pc = "device_create"
  /\ \/ DeviceCreateFails
     \/ /\ device' = [device EXCEPT !.created = TRUE]
        /\ pc' = "run_device"
        /\ UNCHANGED <<status, failure>>
  /\ UNCHANGED <<options, ret, roms, log_fp, saves, thread, rd>>

\* device_destroy(device)
device_destroy(d) == [d EXCEPT !.destroys = @ + 1]

\* run_device without device->running = true.
RunDeviceSkipsSetRunning ==
  /\ pc = "run_device"
  /\ pc' = "thread_create"
  /\ UNCHANGED <<options, status, ret, failure, roms, log_fp, saves, device,
                 thread, rd>>

\* run_device: device->running = true;
RunDeviceSetRunning ==
  /\ pc = "run_device"
  /\ device' = [device EXCEPT !.running = TRUE]
  /\ pc' = "thread_create"
  /\ UNCHANGED <<options, status, ret, failure, roms, log_fp, saves, thread,
                 rd>>

\* run_device: if (cen64_thread_create(...)) { device_destroy(device);
\* return 1; }, and status = run_device(...) in cen64_main.
ThreadCreateFails ==
  /\ device' = device_destroy(device)
  /\ failure' = "thread_create"
  /\ rd' = <<1>>
  /\ status' = 1
  /\ pc' = "device_destroy"
  /\ UNCHANGED thread

RunDeviceThreadCreate ==
  /\ pc = "thread_create"
  /\ \/ ThreadCreateFails
     \/ /\ thread' = [thread EXCEPT !.pc = "entry"]
        /\ pc' = "window"
        /\ UNCHANGED <<device, failure, rd, status>>
  /\ UNCHANGED <<options, ret, roms, log_fp, saves>>

\* run_device: if (!no_video) cen64_gl_window_thread(device);
RunDeviceWindow ==
  /\ pc = "window"
  /\ pc' = IF options.no_video THEN "clear_running" ELSE "in_window"
  /\ UNCHANGED <<options, status, ret, failure, roms, log_fp, saves, device,
                 thread, rd>>

\* cen64_gl_window_thread returns: the user asked to quit.
WindowReturns ==
  /\ pc = "in_window"
  /\ pc' = "clear_running"
  /\ UNCHANGED <<options, status, ret, failure, roms, log_fp, saves, device,
                 thread, rd>>

\* device->running left as it is.
ClearRunningForgotten(d) == d

\* run_device: device->running = false;
ClearRunning(d) == [d EXCEPT !.running = FALSE]

RunDeviceClearRunning ==
  /\ pc = "clear_running"
  /\ device' = ClearRunning(device)
  /\ pc' = "join"
  /\ UNCHANGED <<options, status, ret, failure, roms, log_fp, saves, thread,
                 rd>>

\* run_device: cen64_thread_join(&thread); return 0;  The join returns once
\* the emulation thread has finished; status = run_device(...).
RunDeviceJoin ==
  /\ pc = "join"
  /\ thread.pc = "done"
  /\ rd' = <<0>>
  /\ status' = 0
  /\ pc' = "device_destroy"
  /\ UNCHANGED <<options, ret, failure, roms, log_fp, saves, device, thread>>

\* cen64_main: device_destroy(device); after run_device.
DeviceDestroy ==
  /\ pc = "device_destroy"
  /\ device' = device_destroy(device)
  /\ pc' = "free"
  /\ UNCHANGED <<options, status, ret, failure, roms, log_fp, saves, thread,
                 rd>>

\* cen64_free(&cen64_device_mem);
FreeDevice ==
  /\ pc = "free"
  /\ device' = [device EXCEPT !.allocated = FALSE]
  /\ pc' = "release"
  /\ UNCHANGED <<options, status, ret, failure, roms, log_fp, saves, thread,
                 rd>>

\* close_log_file: if (!log_fp) fclose(log_fp);  The handle is passed to
\* fclose only when it is null; an open log file stays open.
close_log_file(fp) == IF fp = "null" THEN "fclose_null" ELSE fp

\* Release resources, and return status.
Release ==
  /\ pc = "release"
  /\ roms' = Close(CloseIf(options.cart,
                     CloseIf(options.ddrom,
                       CloseIf(options.ddipl, roms, "ddipl"), "ddrom"),
                     "cart"), "pifrom")
  /\ log_fp' = IF options.log THEN close_log_file(log_fp) ELSE log_fp
  /\ Return(status)
  /\ UNCHANGED <<options, status, failure, saves, device, thread, rd>>

\* run_device_thread: device_run(device);
ThreadEntry ==
  /\ thread.pc = "entry"
  /\ thread' = [thread EXCEPT !.pc = "loop", !.runs = @ + 1]
  /\ UNCHANGED <<pc, options, status, ret, failure, roms, log_fp, saves,
                 device, rd>>

\* device_run, the stepper: it reads device->running once per outer iteration
\* and returns when it is clear.
StepperCheck ==
  /\ thread.pc = "loop"
  /\ thread' = [thread EXCEPT !.pc = IF device.running THEN "step" ELSE "done"]
  /\ UNCHANGED <<pc, options, status, ret, failure, roms, log_fp, saves,
                 device, rd>>

\* device_run: one outer iteration (one VR4300 cycle); counted up to MaxCycles.
StepperCycle ==
  /\ thread.pc = "step"
  /\ thread' = [thread EXCEPT !.pc = "loop",
                              !.cycles = IF @ < MaxCycles THEN @ + 1 ELSE @]
  /\ UNCHANGED <<pc, options, status, ret, failure, roms, log_fp, saves,
                 device, rd>>

\* The host-level failures, and the status cen64_main returns after each:
\* the value of its return statement, or the value it gives status before
\* the release code returns it (1 is what run_device returns when the
\* emulation thread cannot be created).
Failures ==
  {"cart_db", "alloc_init", "options", "ddipl", "ddrom", "pifrom", "cart",
   "log", "mempak", "tpak", "eeprom", "sram", "flashram", "alloc_device",
   "device_create", "thread_create"}

FailureStatus(f) == IF f = "thread_create" THEN 1 ELSE EXIT_FAILURE

(***************************************************************************)
(* rsp/opcodes_priv.h: the decoded record of every RSP opcode: its opcode  *)
(* kind, its function kind and its info bitset (a set of flag names;       *)
(* OPCODE_INFO_NONE is no flag).                                           *)
(***************************************************************************)
RSP_BUILD_OP(op, func, flags) == [id |-> op, func |-> func, info |-> flags]

INFO1(x) == {x} \ {"NONE"}
INFO2(x, y) == INFO1(x) \cup INFO1(y)
INFO3(x, y, z) == INFO2(x, y) \cup INFO1(z)
INFO4(x, y, z, a) == INFO3(x, y, z) \cup INFO1(a)
INFO5(x, y, z, a, b) == INFO4(x, y, z, a) \cup INFO1(b)

INVALID == RSP_BUILD_OP("INVALID", "INVALID", INFO1("NONE"))
VINVALID == RSP_BUILD_OP("VINVALID", "VINVALID", INFO1("VECTOR"))

\* The opcodes the header defines, in its order.
rsp_opcode_table ==
  <<
    RSP_BUILD_OP("ADDIU", "ADDIU_LUI_SUBIU", INFO1("NEEDRS")),
    RSP_BUILD_OP("ADDU", "ADDU_SUBU", INFO2("NEEDRS", "NEEDRT")),
    RSP_BUILD_OP("AND", "AND_OR_XOR", INFO2("NEEDRS", "NEEDRT")),
    RSP_BUILD_OP("ANDI", "ANDI_ORI_XORI", INFO1("NEEDRS")),
    RSP_BUILD_OP("BEQ", "BEQ_BNE", INFO3("BRANCH", "NEEDRS", "NEEDRT")),
    RSP_BUILD_OP("BGEZ", "BGEZ_BLTZ", INFO2("BRANCH", "NEEDRS")),
    RSP_BUILD_OP("BGEZAL", "BGEZAL_BLTZAL", INFO2("BRANCH", "NEEDRS")),
    RSP_BUILD_OP("BGTZ", "BGTZ_BLEZ", INFO2("BRANCH", "NEEDRS")),
    RSP_BUILD_OP("BLEZ", "BGTZ_BLEZ", INFO2("BRANCH", "NEEDRS")),
    RSP_BUILD_OP("BLTZ", "BGEZ_BLTZ", INFO2("BRANCH", "NEEDRS")),
    RSP_BUILD_OP("BLTZAL", "BGEZAL_BLTZAL", INFO2("BRANCH", "NEEDRS")),
    RSP_BUILD_OP("BNE", "BEQ_BNE", INFO3("BRANCH", "NEEDRS", "NEEDRT")),
    RSP_BUILD_OP("BREAK", "BREAK", INFO1("NONE")),
    RSP_BUILD_OP("J", "J_JAL", INFO1("BRANCH")),
    RSP_BUILD_OP("JAL", "J_JAL", INFO1("BRANCH")),
    RSP_BUILD_OP("JALR", "JALR_JR", INFO2("BRANCH", "NEEDRS")),
    RSP_BUILD_OP("JR", "JALR_JR", INFO2("BRANCH", "NEEDRS")),
    RSP_BUILD_OP("LB", "LOAD", INFO2("NEEDRS", "LOAD")),
    RSP_BUILD_OP("LBU", "LOAD", INFO2("NEEDRS", "LOAD")),
    RSP_BUILD_OP("LH", "LOAD", INFO2("NEEDRS", "LOAD")),
    RSP_BUILD_OP("LHU", "LOAD", INFO2("NEEDRS", "LOAD")),
    RSP_BUILD_OP("LUI", "ADDIU_LUI_SUBIU", INFO1("NONE")),
    RSP_BUILD_OP("LW", "LOAD", INFO2("NEEDRS", "LOAD")),
    RSP_BUILD_OP("NOP", "INVALID", INFO1("NONE")),
    RSP_BUILD_OP("NOR", "NOR", INFO2("NEEDRS", "NEEDRT")),
    RSP_BUILD_OP("OR", "AND_OR_XOR", INFO2("NEEDRS", "NEEDRT")),
    RSP_BUILD_OP("ORI", "ANDI_ORI_XORI", INFO1("NEEDRS")),
    RSP_BUILD_OP("SB", "STORE", INFO3("NEEDRS", "NEEDRT", "STORE")),
    RSP_BUILD_OP("SH", "STORE", INFO3("NEEDRS", "NEEDRT", "STORE")),
    RSP_BUILD_OP("SLL", "SLL_SLLV", INFO1("NEEDRT")),
    RSP_BUILD_OP("SLLV", "SLL_SLLV", INFO2("NEEDRS", "NEEDRT")),
    RSP_BUILD_OP("SLT", "SLT", INFO2("NEEDRS", "NEEDRT")),
    RSP_BUILD_OP("SLTI", "SLTI", INFO1("NEEDRS")),
    RSP_BUILD_OP("SLTIU", "SLTIU", INFO1("NEEDRS")),
    RSP_BUILD_OP("SLTU", "SLTU", INFO2("NEEDRS", "NEEDRT")),
    RSP_BUILD_OP("SRA", "SRA", INFO1("NEEDRT")),
    RSP_BUILD_OP("SRAV", "SRAV", INFO2("NEEDRS", "NEEDRT")),
    RSP_BUILD_OP("SRL", "SRL", INFO1("NEEDRT")),
    RSP_BUILD_OP("SRLV", "SRLV", INFO2("NEEDRS", "NEEDRT")),
    RSP_BUILD_OP("SUBU", "ADDU_SUBU", INFO1("NEEDRS")),
    RSP_BUILD_OP("SW", "STORE", INFO3("NEEDRS", "NEEDRT", "STORE")),
    RSP_BUILD_OP("XOR", "AND_OR_XOR", INFO2("NEEDRS", "NEEDRT")),
    RSP_BUILD_OP("XORI", "ANDI_ORI_XORI", INFO1("NEEDRS")),
    RSP_BUILD_OP("MFC0", "MFC0", INFO1("NONE")),
    RSP_BUILD_OP("MTC0", "MTC0", INFO1("NEEDRT")),
    RSP_BUILD_OP("CFC2", "CFC2", INFO1("NONE")),
    RSP_BUILD_OP("CTC2", "INVALID", INFO1("NONE")),
    RSP_BUILD_OP("MFC2", "INVALID", INFO1("NONE")),
    RSP_BUILD_OP("MTC2", "INVALID", INFO1("NONE")),
    RSP_BUILD_OP("VABS", "VABS", INFO3("VECTOR", "NEEDVS", "NEEDVT")),
    RSP_BUILD_OP("VADD", "VADD", INFO3("VECTOR", "NEEDVS", "NEEDVT")),
    RSP_BUILD_OP("VADDC", "VADDC", INFO3("VECTOR", "NEEDVS", "NEEDVT")),
    RSP_BUILD_OP("VAND", "VAND", INFO3("VECTOR", "NEEDVS", "NEEDVT")),
    RSP_BUILD_OP("VCH", "VCH", INFO3("VECTOR", "NEEDVS", "NEEDVT")),
    RSP_BUILD_OP("VCL", "VCL", INFO3("VECTOR", "NEEDVS", "NEEDVT")),
    RSP_BUILD_OP("VCR", "VCR", INFO3("VECTOR", "NEEDVS", "NEEDVT")),
    RSP_BUILD_OP("VEQ", "VEQ", INFO3("VECTOR", "NEEDVS", "NEEDVT")),
    RSP_BUILD_OP("VGE", "VGE", INFO3("VECTOR", "NEEDVS", "NEEDVT")),
    RSP_BUILD_OP("VLT", "VLT", INFO3("VECTOR", "NEEDVS", "NEEDVT")),
    RSP_BUILD_OP("VMACF", "VINVALID", INFO1("VECTOR")),
    RSP_BUILD_OP("VMACQ", "VINVALID", INFO1("VECTOR")),
    RSP_BUILD_OP("VMACU", "VINVALID", INFO1("VECTOR")),
    RSP_BUILD_OP("VMADH", "VMADH", INFO3("VECTOR", "NEEDVS", "NEEDVT")),
    RSP_BUILD_OP("VMADL", "VMADL", INFO3("VECTOR", "NEEDVS", "NEEDVT")),
    RSP_BUILD_OP("VMADM", "VMADM", INFO3("VECTOR", "NEEDVS", "NEEDVT")),
    RSP_BUILD_OP("VMADN", "VMADN", INFO3("VECTOR", "NEEDVS", "NEEDVT")),
    RSP_BUILD_OP("VMOV", "VINVALID", INFO1("VECTOR")),
    RSP_BUILD_OP("VMRG", "VMRG", INFO3("VECTOR", "NEEDVS", "NEEDVT")),
    RSP_BUILD_OP("VMUDH", "VMUDH", INFO3("VECTOR", "NEEDVS", "NEEDVT")),
    RSP_BUILD_OP("VMUDL", "VMUDL", INFO3("VECTOR", "NEEDVS", "NEEDVT")),
    RSP_BUILD_OP("VMUDM", "VMUDM", INFO3("VECTOR", "NEEDVS", "NEEDVT")),
    RSP_BUILD_OP("VMUDN", "VMUDN", INFO3("VECTOR", "NEEDVS", "NEEDVT")),
    RSP_BUILD_OP("VMULF", "VMULF", INFO3("VECTOR", "NEEDVS", "NEEDVT")),
    RSP_BUILD_OP("VMULQ", "VINVALID", INFO1("VECTOR")),
    RSP_BUILD_OP("VMULU", "VINVALID", INFO1("VECTOR")),
    RSP_BUILD_OP("VNAND", "VNAND", INFO3("VECTOR", "NEEDVS", "NEEDVT")),
    RSP_BUILD_OP("VNE", "VNE", INFO3("VECTOR", "NEEDVS", "NEEDVT")),
    RSP_BUILD_OP("VNOP", "VINVALID", INFO1("VECTOR")),
    RSP_BUILD_OP("VNOR", "VNOR", INFO3("VECTOR", "NEEDVS", "NEEDVT")),
    RSP_BUILD_OP("VNXOR", "VNXOR", INFO3("VECTOR", "NEEDVS", "NEEDVT")),
    RSP_BUILD_OP("VOR", "VOR", INFO3("VECTOR", "NEEDVS", "NEEDVT")),
    RSP_BUILD_OP("VRCP", "VINVALID", INFO1("VECTOR")),
    RSP_BUILD_OP("VRCPH", "VINVALID", INFO1("VECTOR")),
    RSP_BUILD_OP("VRCPL", "VINVALID", INFO1("VECTOR")),
    RSP_BUILD_OP("VRNDN", "VINVALID", INFO1("VECTOR")),
    RSP_BUILD_OP("VRNDP", "VINVALID", INFO1("VECTOR")),
    RSP_BUILD_OP("VRSQ", "VINVALID", INFO1("VECTOR")),
    RSP_BUILD_OP("VRSQH", "VINVALID", INFO1("VECTOR")),
    RSP_BUILD_OP("VRSQL", "VINVALID", INFO1("VECTOR")),
    RSP_BUILD_OP("VSAR", "VSAR", INFO1("VECTOR")),
    RSP_BUILD_OP("VSUB", "VSUB", INFO3("VECTOR", "NEEDVS", "NEEDVT")),
    RSP_BUILD_OP("VSUBC", "VSUBC", INFO3("VECTOR", "NEEDVS", "NEEDVT")),
    RSP_BUILD_OP("VXOR", "VXOR", INFO3("VECTOR", "NEEDVS", "NEEDVT")),
    RSP_BUILD_OP("LBV", "BDLQSV_SBDLQSV", INFO3("NEEDRS", "NEEDVT", "LOAD")),
    RSP_BUILD_OP("LDV", "BDLQSV_SBDLQSV", INFO3("NEEDRS", "NEEDVT", "LOAD")),
    RSP_BUILD_OP("LFV", "INVALID", INFO1("NONE")),
    RSP_BUILD_OP("LHV", "INVALID", INFO1("NONE")),
    RSP_BUILD_OP("LLV", "BDLQSV_SBDLQSV", INFO3("NEEDRS", "NEEDVT", "LOAD")),
    RSP_BUILD_OP("LPV", "INVALID", INFO1("NONE")),
    RSP_BUILD_OP("LQV", "BDLQSV_SBDLQSV", INFO3("NEEDRS", "NEEDVT", "LOAD")),
    RSP_BUILD_OP("LRV", "INVALID", INFO1("NONE")),
    RSP_BUILD_OP("LSV", "BDLQSV_SBDLQSV", INFO3("NEEDRS", "NEEDVT", "LOAD")),
    RSP_BUILD_OP("LTV", "INVALID", INFO1("NONE")),
    RSP_BUILD_OP("LUV", "INVALID", INFO1("NONE")),
    RSP_BUILD_OP("SBV", "BDLQSV_SBDLQSV", INFO3("NEEDRS", "NEEDVT", "STORE")),
    RSP_BUILD_OP("SDV", "BDLQSV_SBDLQSV", INFO3("NEEDRS", "NEEDVT", "STORE")),
    RSP_BUILD_OP("SFV", "INVALID", INFO1("NONE")),
    RSP_BUILD_OP("SHV", "INVALID", INFO1("NONE")),
    RSP_BUILD_OP("SLV", "BDLQSV_SBDLQSV", INFO3("NEEDRS", "NEEDVT", "STORE")),
    RSP_BUILD_OP("SPV", "INVALID", INFO1("NONE")),
    RSP_BUILD_OP("SQV", "BDLQSV_SBDLQSV", INFO3("NEEDRS", "NEEDVT", "STORE")),
    RSP_BUILD_OP("SRV", "INVALID", INFO1("NONE")),
    RSP_BUILD_OP("SSV", "BDLQSV_SBDLQSV", INFO3("NEEDRS", "NEEDVT", "STORE")),
    RSP_BUILD_OP("STV", "INVALID", INFO1("NONE")),
    RSP_BUILD_OP("SUV", "INVALID", INFO1("NONE")),
    RSP_BUILD_OP("SWV", "INVALID", INFO1("NONE"))
  >>

\* Every decoded record: INVALID and VINVALID are what an encoding with no
\* opcode decodes to.
rsp_opcodes ==
  {INVALID, VINVALID} \cup {rsp_opcode_table[i] : i \in DOMAIN rsp_opcode_table}

\* The RSP decodes an instruction: its decoded record is that of its opcode.
rsp_decode(op) ==
  rsp_opcode' = op

\* No instruction has been decoded yet.
rsp_init ==
  rsp_opcode = INVALID

MainIdle ==
  /\ pc = "idle"
  /\ options = NoOptions
  /\ status = EXIT_SUCCESS
  /\ ret = <<>>
  /\ failure = "none"
  /\ roms = NoRoms
  /\ log_fp = "null"
  /\ saves = NoSaves
  /\ device = NoDevice
  /\ thread = NoThread
  /\ rd = <<>>

CacheIdle ==
  /\ lines = <<>>
  /\ lastOp = Op("init", NULL, FALSE, FALSE)
  /\ fillTag = <<>>
  /\ wbInv = {}
  /\ memWrites = {}

(***************************************************************************)
(* The specifications: the data cache under any sequence of its           *)
(* operations; cen64_main with the emulation thread.                       *)
(***************************************************************************)
Init == vr4300_dcache_init /\ MainIdle /\ rsp_init

Next ==
  \/ \E v \in VAddrs, p \in PAddrs, d \in Blocks :
       vr4300_dcache_fill(v, p, d) /\ UNCHANGED <<mvars, rvars>>
  \/ \E v \in VAddrs : vr4300_dcache_invalidate(v) /\ UNCHANGED <<mvars, rvars>>
  \/ \E v \in VAddrs, p \in PAddrs :
       vr4300_dcache_invalidate_hit(v, p) /\ UNCHANGED <<mvars, rvars>>
  \/ \E v \in VAddrs, p \in PAddrs :
       vr4300_dcache_probe(v, p) /\ UNCHANGED <<mvars, rvars>>
  \/ \E v \in VAddrs, t \in Tags :
       vr4300_dcache_set_tag(v, t) /\ UNCHANGED <<mvars, rvars>>
  \/ \E v \in VAddrs : vr4300_dcache_should_flush_line(v) /\ UNCHANGED <<mvars, rvars>>
  \/ \E v \in VAddrs : vr4300_dcache_wb_invalidate(v) /\ UNCHANGED <<mvars, rvars>>

Spec == Init /\ [][Next]_vars

InitMain == MainInit /\ CacheIdle /\ rsp_init

\* The invoker's thread: cen64_main and run_device.
InvokerNext ==
  \/ CartDbCheck
  \/ AllocInit
  \/ ArgcCheck
  \/ ParseOptions
  \/ LoadRoms
  \/ OpenLog
  \/ LoadPaks
  \/ OpenEeprom
  \/ OpenSram
  \/ OpenFlashram
  \/ AllocDevice
  \/ DeviceCreate
  \/ RunDeviceSetRunning
  \/ RunDeviceThreadCreate
  \/ RunDeviceWindow
  \/ RunDeviceClearRunning
  \/ RunDeviceJoin
  \/ DeviceDestroy
  \/ FreeDevice
  \/ Release

\* The emulation thread: run_device_thread and device_run.
EmulationNext ==
  \/ ThreadEntry
  \/ StepperCheck
  \/ StepperCycle

NextMain ==
  \/ CartDbCheck /\ UNCHANGED <<dvars, rvars>>
  \/ AllocInit /\ UNCHANGED <<dvars, rvars>>
  \/ ArgcCheck /\ UNCHANGED <<dvars, rvars>>
  \/ ParseOptions /\ UNCHANGED <<dvars, rvars>>
  \/ LoadRoms /\ UNCHANGED <<dvars, rvars>>
  \/ OpenLog /\ UNCHANGED <<dvars, rvars>>
  \/ LoadPaks /\ UNCHANGED <<dvars, rvars>>
  \/ OpenEeprom /\ UNCHANGED <<dvars, rvars>>
  \/ OpenSram /\ UNCHANGED <<dvars, rvars>>
  \/ OpenFlashram /\ UNCHANGED <<dvars, rvars>>
  \/ AllocDevice /\ UNCHANGED <<dvars, rvars>>
  \/ DeviceCreate /\ UNCHANGED <<dvars, rvars>>
  \/ RunDeviceSetRunning /\ UNCHANGED <<dvars, rvars>>
  \/ RunDeviceThreadCreate /\ UNCHANGED <<dvars, rvars>>
  \/ RunDeviceWindow /\ UNCHANGED <<dvars, rvars>>
  \/ WindowReturns /\ UNCHANGED <<dvars, rvars>>
  \/ RunDeviceClearRunning /\ UNCHANGED <<dvars, rvars>>
  \/ RunDeviceJoin /\ UNCHANGED <<dvars, rvars>>
  \/ DeviceDestroy /\ UNCHANGED <<dvars, rvars>>
  \/ FreeDevice /\ UNCHANGED <<dvars, rvars>>
  \/ Release /\ UNCHANGED <<dvars, rvars>>
  \/ ThreadEntry /\ UNCHANGED <<dvars, rvars>>
  \/ StepperCheck /\ UNCHANGED <<dvars, rvars>>
  \/ StepperCycle /\ UNCHANGED <<dvars, rvars>>

SpecMain == InitMain /\ [][NextMain]_vars

\* Both threads are scheduled by the host; the user need never quit.
FairSpecMain ==
  SpecMain /\ WF_vars(InvokerNext /\ UNCHANGED <<dvars, rvars>>)
           /\ WF_vars(EmulationNext /\ UNCHANGED <<dvars, rvars>>)

\* The RSP decoding any sequence of instructions.
InitRsp == rsp_init /\ CacheIdle /\ MainIdle

NextRsp ==
  \E op \in rsp_opcodes : rsp_decode(op) /\ UNCHANGED <<dvars, mvars>>

SpecRsp == InitRsp /\ [][NextRsp]_vars

(***************************************************************************)
(* Properties of the data cache.                                           *)
(***************************************************************************)

\* The physical address a line's stored tag stands for, and the write of the
\* line's 16 bytes to memory there.
LinePAddr(line) == get_tag(line) * 16
WriteBack(line) == [paddr |-> LinePAddr(line), data |-> line.data]

\* C1: immediately after vr4300_dcache_fill(vaddr, paddr, bytes),
\* vr4300_dcache_probe(vaddr, paddr) returns a line (not a miss) whose data
\* equals bytes and whose tag, as vr4300_dcache_get_tag returns it, equals
\* paddr >> 4, for every paddr, those at or above 2^24 included.
C1_FillThenProbeHits ==
  [][\A v \in VAddrs, p \in PAddrs, d \in Blocks :
       vr4300_dcache_fill(v, p, d) =>
         LET l == probe(lines', v, p)
         IN /\ l # NULL
            /\ BlockBytes(lines'[l].data) = BlockBytes(d)
            /\ get_tag(lines'[l]) = p \div 16]_vars

\* C2: when vr4300_dcache_wb_invalidate is applied to a line that is valid
\* and dirty, the line's 16 bytes are written to memory at the line's
\* physical address (before the valid bit is cleared).
C2_WbInvalidateWritesBack ==
  [][\A v \in VAddrs :
       (/\ vr4300_dcache_wb_invalidate(v)
        /\ is_valid(lines[get_line(v)])
        /\ is_dirty(lines[get_line(v)]))
       => WriteBack(lines[get_line(v)]) \in memWrites']_vars

TagOk(ls, ft, i) ==
  (i \in DOMAIN ft /\ ls[i].metadata.lo % 2 = 1)
    => ls[i].metadata.hi = ft[i] % (2^20)

C4_FillNeverReplacesDirty ==
  [][\A v \in VAddrs, p \in PAddrs, d \in Blocks :
       (/\ vr4300_dcache_fill(v, p, d)
        /\ is_valid(lines[get_line(v)])
        /\ is_dirty(lines[get_line(v)]))
       => WriteBack(lines[get_line(v)]) \in memWrites]_vars

\* C4, amended: vr4300_dcache_fill writes nothing back: it replaces the line
\* whatever its state, a valid dirty line included, and leaves it valid and
\* clean with the new data; the line a fill of vaddr would destroy is the one
\* vr4300_dcache_should_flush_line(vaddr) returns just before the fill, and
\* it returns it exactly when the line is valid and dirty.
C4_FillReplacesAndCallerFlushes ==
  [][\A v \in VAddrs, p \in PAddrs, d \in Blocks :
       vr4300_dcache_fill(v, p, d) =>
         LET i == (v \div 16) % 512
         IN /\ memWrites' = memWrites
            /\ lines'[i].data = d
            /\ lines'[i].metadata.lo = 1
            /\ should_flush_line(lines, v) =
                 (IF lines[i].metadata.lo % 4 = 3 THEN i ELSE NULL)]_vars

\* C4 witness: a fill has replaced a line that was valid and dirty, and no
\* write to memory has been made.
C4_Witness ==
  lastOp.op = "fill" /\ lastOp.dirty /\ memWrites = {}

\* C5: after vr4300_dcache_wb_invalidate(vaddr), and until the next fill at
\* the same index, vr4300_dcache_probe(vaddr, paddr) returns a miss for every
\* paddr, the paddr the line's stored tag stands for included.
C5_MissAfterWbInvalidate ==
  \A v \in VAddrs :
    get_line(v) \in wbInv =>
      \A p \in PAddrs \cup {LinePAddr(lines[get_line(v)])} :
        probe(lines, v, p) = NULL

\* C5 witness: wb_invalidate has just invalidated a valid dirty line whose
\* stored tag is that of a sample paddr.
C5_Witness ==
  /\ lastOp.op = "wb_invalidate" /\ lastOp.dirty
  /\ \E i \in wbInv, p \in PAddrs : get_tag(lines[i]) = p \div 16

\* Stored tag equals paddr >> 4 and the valid bit is set, on the raw metadata.
RawHit(ls, v, p) ==
  LET m == ls[(v \div 16) % 512].metadata
  IN m.hi = p \div 16 /\ m.lo % 2 = 1

\* C6: vr4300_dcache_probe(vaddr, paddr) returns the line at index
\* (vaddr >> 4) & 0x1FF exactly when its stored tag equals paddr >> 4 and its
\* valid bit is set, and NULL otherwise; vr4300_dcache_invalidate_hit clears
\* the valid bit in exactly that case and otherwise changes no line.
C6_SameHitPredicate ==
  [][/\ \A v \in VAddrs, p \in PAddrs :
          vr4300_dcache_probe(v, p) =>
            lastOp'.ret = (IF RawHit(lines, v, p) THEN (v \div 16) % 512 ELSE NULL)
     /\ \A v \in VAddrs, p \in PAddrs :
          vr4300_dcache_invalidate_hit(v, p) =>
            lines' = (IF RawHit(lines, v, p)
                      THEN [lines EXCEPT ![(v \div 16) % 512].metadata.lo = @ - 1]
                      ELSE lines)]_vars

\* C6 witness: invalidate_hit has just hit and invalidated a line.
C6_Witness ==
  /\ lastOp.op = "invalidate_hit" /\ lastOp.hit
  /\ \E i \in Indices : ~is_valid(lines[i])

\* C16: vr4300_dcache_set_tag(vaddr, tag) changes only the stored tag of the
\* line at the index of vaddr: the line's valid bit, its dirty bit and its 16
\* data bytes are the same after the call as before, so a line that was valid
\* and dirty is still returned by vr4300_dcache_should_flush_line.
C16_SetTagKeepsDirtyAndData ==
  [][\A v \in VAddrs, t \in Tags :
       vr4300_dcache_set_tag(v, t) =>
         LET i == (v \div 16) % 512
         IN /\ lines'[i].metadata.lo % 2 = lines[i].metadata.lo % 2
            /\ (lines'[i].metadata.lo \div 2) % 2 = (lines[i].metadata.lo \div 2) % 2
            /\ BlockBytes(lines'[i].data) = BlockBytes(lines[i].data)
            /\ should_flush_line(lines', v) = should_flush_line(lines, v)]_vars

\* C17: fill leaves the line valid and clean whatever its prior state: after
\* vr4300_dcache_fill(vaddr, paddr, data), including when the line was valid
\* and dirty before, vr4300_dcache_should_flush_line(vaddr) returns NULL; and
\* should_flush_line returns the line exactly when both its dirty bit and its
\* valid bit are set.
C17_FillLeavesValidClean ==
  [][/\ \A v \in VAddrs, p \in PAddrs, d \in Blocks :
          vr4300_dcache_fill(v, p, d) =>
            /\ lines'[(v \div 16) % 512].metadata.lo % 4 = 1
            /\ should_flush_line(lines', v) = NULL
     /\ \A v \in VAddrs :
          vr4300_dcache_should_flush_line(v) =>
            lastOp'.ret = (IF lines[(v \div 16) % 512].metadata.lo % 4 = 3
                           THEN (v \div 16) % 512 ELSE NULL)]_vars

\* C17 witness: a fill has just replaced a line that was valid and dirty, and
\* should_flush_line returns NULL for the filled line, which is valid.
C17_Witness ==
  /\ lastOp.op = "fill" /\ lastOp.dirty
  /\ \E v \in VAddrs :
       /\ get_line(v) \in DOMAIN fillTag
       /\ is_valid(lines[get_line(v)])
       /\ should_flush_line(lines, v) = NULL

\* The five operations that take a vaddr and modify the cache.
Modifies(vaddr) ==
  \/ \E p \in PAddrs, d \in Blocks : vr4300_dcache_fill(vaddr, p, d)
  \/ vr4300_dcache_invalidate(vaddr)
  \/ \E p \in PAddrs : vr4300_dcache_invalidate_hit(vaddr, p)
  \/ \E t \in Tags : vr4300_dcache_set_tag(vaddr, t)
  \/ vr4300_dcache_wb_invalidate(vaddr)

\* C18: every D-cache operation taking a vaddr (fill, invalidate,
\* invalidate_hit, set_tag, wb_invalidate) modifies only the line at index
\* (vaddr >> 4) & 0x1FF and leaves the other 511 lines unchanged; two virtual
\* addresses that agree on bits 4..12 share one line, so after fill(v1, p1)
\* followed by fill(v2, p2) with the same index and p1 >> 4 different from
\* p2 >> 4, probe(v1, p1) misses and probe(v2, p2) hits.
C18_OneLinePerIndex ==
  [][/\ \A v \in VAddrs :
          Modifies(v) =>
            \A j \in (0..511) \ {(v \div 16) % 512} : lines'[j] = lines[j]
     /\ \A v1, v2 \in VAddrs, p1, p2 \in PAddrs, d \in Blocks :
          (/\ (v1 \div 16) % 512 = (v2 \div 16) % 512
           /\ (v1 \div 16) % 512 \in DOMAIN fillTag
           /\ fillTag[(v1 \div 16) % 512] = p1 \div 16
           /\ p1 \div 16 # p2 \div 16
           /\ vr4300_dcache_fill(v2, p2, d))
          => /\ probe(lines', v1, p1) = NULL
             /\ probe(lines', v2, p2) # NULL]_vars

(***************************************************************************)
(* Properties of cen64_main and run_device.                                *)
(***************************************************************************)

\* C7: every device that device_create constructs is destroyed by
\* device_destroy exactly once before cen64_main returns, on every path;
\* device_destroy is never called twice on the device, and never on a device
\* that was not created.
C7_DestroyedExactlyOnce ==
  /\ device.destroys <= 1
  /\ (device.destroys > 0 => device.created)
  /\ (pc = "returned" /\ device.created => device.destroys = 1)

\* C8: every host-level initialization failure in cen64_main (cart database,
\* allocator initialization, command-line options, a ROM open, the log file,
\* a controller pak, an EEPROM/SRAM/FlashRAM save, the device memory,
\* device_create, the emulation thread) makes cen64_main return a nonzero
\* status.
C8_FailureReturnsNonzero ==
  (pc = "returned" /\ failure # "none") => (Len(ret) = 1 /\ ret[1] # 0)

\* C8 witness: cen64_main has returned after the failure that comes last,
\* the creation of the emulation thread.
C8_Witness ==
  pc = "returned" /\ failure = "thread_create" /\ ret = <<1>>

\* Every initialization step before run_device's thread creation succeeded.
InitSucceeded ==
  /\ failure = "none"
  /\ \A f \in RomFiles :
       /\ roms[f].opens = (IF f = "pifrom" \/ options[f] THEN 1 ELSE 0)
       /\ roms[f].closes = 0
  /\ saves.opened = Requested(options)
  /\ device.allocated
  /\ device.created
  /\ device.destroys = 0
  /\ device.running

\* C9: the emulation thread running device_run is created only after every
\* earlier initialization step succeeded (load_roms returned 0, the requested
\* save files and paks opened, the device memory was allocated, device_create
\* returned non-NULL, device->running was set to true); on any failing path
\* device_run is never invoked.
C9_ThreadOnlyAfterInit ==
  /\ [][(thread.pc = "none" /\ thread'.pc # "none") => InitSucceeded]_vars
  /\ [](failure # "none" => (thread.pc = "none" /\ thread.runs = 0))
  /\ [](thread.runs > 0 => device.created)

\* C9 witness: device_run has been invoked and has run a cycle, with save
\* files opened before.
C9_Witness ==
  thread.runs = 1 /\ thread.cycles >= 1 /\ "flashram" \in saves.opened

\* C10: once the presentation thread has returned, run_device terminates: it
\* clears device->running before joining, the join completes, run_device
\* returns 0 only after the emulation thread has finished, and the flag stays
\* false afterwards.
C10_RunDeviceTerminates ==
  /\ (pc = "clear_running") ~> (rd = <<0>>)
  /\ [][pc' = "join" => (pc \in {"clear_running", "join"} /\ ~device'.running)]_vars
  /\ [](rd = <<0>> => thread.pc = "done")
  /\ [][(thread.pc # "none" /\ ~device.running) => ~device'.running]_vars

\* C10 witness: run_device has returned 0 after the stepper ran and stopped.
C10_Witness ==
  rd = <<0>> /\ thread.pc = "done" /\ thread.cycles >= 1 /\ ~options.no_video

\* C11: close_log_file closes the log handle when it is non-null and does
\* nothing when it is null; on a run where --log was given and open_log_file
\* succeeded, the log file has been closed (fclose called on the handle once)
\* by the time cen64_main returns, and fclose is never handed a null handle.
C11_LogClosedOnReturn ==
  /\ log_fp # "fclose_null"
  /\ (pc = "returned" /\ options.log /\ log_fp # "null") => log_fp = "closed"

\* C12: a SHA-1 mismatch is never fatal in load_roms: whenever every requested
\* ROM file opens, load_roms returns 0 (cen64_main goes on to the log file)
\* whether or not the DD IPL hash matches and whether or not the PIF ROM hash
\* matches a known sum, and no ROM file that was opened has been closed; a
\* nonzero return always comes from an open that failed.
C12_ShaMismatchNotFatal ==
  /\ [][(pc = "load_roms" /\ pc' # "load_roms") =>
          LET opened == {f \in RomFiles : f = "pifrom" \/ options[f]}
              all == \A f \in opened : roms'[f].opens = 1
          IN /\ all => /\ pc' = "open_log"
                       /\ ret' = <<>>
                       /\ \A f \in RomFiles : roms'[f].closes = 0
             /\ pc' = "returned" => ~all]_vars
  /\ \A o \in OptionSets, ipl, pif \in BOOLEAN :
       load_roms(o, NoRoms, "none", ipl, pif).value = 0

\* C12 witness: load_roms has returned 0 with the DD IPL hash and the PIF ROM
\* hash both mismatching, every file open and none closed.
C12_Witness ==
  /\ pc = "open_log"
  /\ roms["ddipl"].sha = "mismatch" /\ roms["pifrom"].sha = "mismatch"
  /\ \A f \in RomFiles : roms[f].opens = 1 /\ roms[f].closes = 0

\* C13: the status cen64_main returns is 0 on success and, on failure, a
\* nonzero value that identifies the failing phase: the status returned after
\* a failure is never the status returned after a failure of another phase.
C13_StatusIdentifiesPhase ==
  /\ (pc = "returned" /\ failure = "none") => ret = <<0>>
  /\ (pc = "returned" /\ failure # "none") =>
       /\ ret # <<0>>
       /\ ret = <<FailureStatus(failure)>>
       /\ \A g \in Failures \ {failure} : FailureStatus(g) # ret[1]

\* C14: a save backing is initialised if and only if it was freshly created:
\* the FlashRAM backing is filled with 0xFF exactly when open_save_file
\* reports created, a controller pak backing is passed to
\* controller_pak_format exactly when its file was created, and the contents
\* of a pre-existing file are never written during start-up.
C14_InitialisedIffCreated ==
  /\ \A f \in {"flashram", "mempak"} :
       f \in saves.opened => (f \in saves.initialised <=> f \in saves.created)
  /\ saves.initialised \subseteq (saves.created \cap {"flashram", "mempak"})
  /\ saves.created \subseteq saves.opened

\* C14 witness: the FlashRAM file was created and filled, and the controller
\* pak file existed already and was left as it was.
C14_Witness ==
  /\ pc = "alloc_device"
  /\ "flashram" \in saves.created /\ "flashram" \in saves.initialised
  /\ "mempak" \in saves.opened \ saves.created
  /\ "mempak" \notin saves.initialised

(***************************************************************************)
(* Properties of the RSP opcode table.                                     *)
(***************************************************************************)

\* The opcodes of the multiply-accumulate families.
MultiplyAccumulate ==
  {"VMULF", "VMULU", "VMUDH", "VMUDL", "VMUDM", "VMUDN",
   "VMACF", "VMACU", "VMADH", "VMADL", "VMADM", "VMADN"}

\* C15: every opcode of the RSP multiply-accumulate families (VMULF, VMULU,
\* VMUDH, VMUDL, VMUDM, VMUDN, VMACF, VMACU, VMADH, VMADL, VMADM, VMADN) has a
\* decoded record whose function kind is its own operation (not VINVALID or
\* INVALID) and whose info bitset contains VECTOR, NEEDVS and NEEDVT.
C15_MultiplyAccumulateDecoded ==
  rsp_opcode.id \in MultiplyAccumulate =>
    /\ rsp_opcode.func = rsp_opcode.id
    /\ {"VECTOR", "NEEDVS", "NEEDVT"} \subseteq rsp_opcode.info

\* The scalar opcodes that read general register rt as a source operand, and
\* those among them that read rs as well (the shifts by an immediate and MTC0
\* read rt alone).
ReadsRt ==
  {"ADDU", "SUBU", "AND", "OR", "XOR", "NOR", "SLT", "SLTU", "SLL", "SRL",
   "SRA", "SLLV", "SRLV", "SRAV", "BEQ", "BNE", "SB", "SH", "SW", "MTC0"}

ReadsRs == ReadsRt \ {"SLL", "SRL", "SRA", "MTC0"}

\* C20: every RSP scalar opcode that reads general register rt as a source
\* operand (ADDU, SUBU, AND, OR, XOR, NOR, SLT, SLTU, SLL, SRL, SRA, SLLV,
\* SRLV, SRAV, BEQ, BNE, SB, SH, SW, MTC0) carries NEEDRT in its info bitset,
\* and every one that reads rs carries NEEDRS.
C20_SourceRegistersNeeded ==
  /\ rsp_opcode.id \in ReadsRt => "NEEDRT" \in rsp_opcode.info
  /\ rsp_opcode.id \in ReadsRs => "NEEDRS" \in rsp_opcode.info

\* C19: run_device spins the device until an exit request is received:
\* device->running is cleared by run_device only after an exit request (the
\* presentation thread returning), for both values of no_video; with
\* no_video set the emulation thread is not told to stop immediately after it
\* is created.
C19_ClearedOnlyAfterExitRequest ==
  [][/\ (device.running /\ ~device'.running) => pc = "clear_running"
     /\ (pc # "clear_running" /\ pc' = "clear_running") => pc = "in_window"]_vars

(***************************************************************************)
(* Properties of the ROM files.                                            *)
(***************************************************************************)

\* The order in which load_roms opens the ROM files, and whether a path was
\* supplied for a file (the PIF ROM path always is).
RomOrder == <<"ddipl", "ddrom", "pifrom", "cart">>
Supplied(o, f) == f = "pifrom" \/ o[f]

\* C21: load_roms is all-or-nothing about the files it opens: whenever it
\* returns nonzero, every ROM file it had opened earlier in the call (DD IPL,
\* DD ROM, PIF ROM, in that order) has been closed exactly once before it
\* returns, and files whose path was not supplied are never closed; it
\* returns 1, 2, 3 or 4 according to whether the first failing open was the
\* DD IPL, DD ROM, PIF ROM or cart.
C21_LoadRomsAllOrNothing ==
  /\ [][(pc = "load_roms" /\ pc' = "returned") =>
          \E k \in 1..4 :
            /\ failure' = RomOrder[k]
            /\ Supplied(options, RomOrder[k])
            /\ \A j \in 1..4 :
                 LET r == roms'[RomOrder[j]]
                 IN /\ r.opens = (IF j < k /\ Supplied(options, RomOrder[j])
                                  THEN 1 ELSE 0)
                    /\ r.closes = r.opens]_vars
  /\ \A o \in OptionSets, k \in 1..4, ipl, pif \in BOOLEAN :
       LET r == load_roms(o, NoRoms, RomOrder[k], ipl, pif)
       IN /\ r.value = (IF Supplied(o, RomOrder[k]) THEN k ELSE 0)
          /\ r.value # 0 =>
               \A j \in 1..4 :
                 /\ r.roms[RomOrder[j]].closes = r.roms[RomOrder[j]].opens
                 /\ ~Supplied(o, RomOrder[j]) => r.roms[RomOrder[j]].closes = 0

\* C21 witness: load_roms has returned 4 (the cart did not open) after
\* opening the DD IPL, the DD ROM and the PIF ROM, each closed once.
C21_Witness ==
  /\ pc = "returned" /\ failure = "cart"
  /\ \A f \in {"ddipl", "ddrom", "pifrom"} :
       roms[f].opens = 1 /\ roms[f].closes = 1
  /\ roms["cart"].opens = 0 /\ roms["cart"].closes = 0

\* C22: every ROM file that cen64_main opened through load_roms (DD IPL, DD
\* ROM, PIF ROM, cart) has been closed with close_rom_file, once, by the time
\* cen64_main returns, on every return path after load_roms succeeded, the
\* failure returns for the log file, the paks and the EEPROM, SRAM and
\* FlashRAM saves included.
C22_RomsClosedOnReturn ==
  pc = "returned" =>
    \A f \in RomFiles : roms[f].opens <= 1 /\ roms[f].closes = roms[f].opens

====
